---- MODULE Spec2Model ----
(***************************************************************************)
(* The Moltbook client: the TypeScript library (src/index.ts) and the      *)
(* shell client (scripts/moltbook.sh), as one state machine.  A state      *)
(* holds the environment (MOLTBOOK_API_KEY, the credentials file), the     *)
(* invocation in progress, every HTTP request issued for it, the last      *)
(* response, and what the caller got back.                                 *)
(***************************************************************************)
EXTENDS Integers, Sequences, FiniteSets, TLC

VARIABLES
    envKey,     \* process.env.MOLTBOOK_API_KEY / $MOLTBOOK_API_KEY; "" when unset or empty
    cfgFile,    \* what ~/.config/moltbook/credentials.json holds (FileStates)
    pc,         \* "idle" | "await" (a request is in flight) | "receiving" | "closed" | "done"
    inv,        \* the invocation: [impl, verb, args, step, saved, echo]
    requests,   \* the HTTP requests issued for this invocation, in order
    response,   \* the response the dispatcher completed on, or NoResponse
    envelope,   \* library: the ApiResponse apiRequest resolved with, or NoEnvelope
    outcome,    \* what the caller observes: a returned value, a thrown error, an exit
    kind,       \* which path ended the invocation ("Success", a failure kind, "none")
    other       \* an earlier invocation's [kind, outcome], kept for comparison

vars == <<envKey, cfgFile, pc, inv, requests, response, envelope, outcome, kind, other>>

----------------------------------------------------------------------------
(* Bounds of the model. *)

\* Redirect hops one api_request follows (curl's own limit is 50).
MaxHops == 1

----------------------------------------------------------------------------
(* JavaScript / JSON values. *)

Undefined == [t |-> "undefined"]
Null == [t |-> "null"]
NaN == [t |-> "nan"]
Str(s) == [t |-> "string", v |-> s]
Num(n) == [t |-> "number", v |-> n]
Bool(b) == [t |-> "boolean", v |-> b]
Obj(f) == [t |-> "object", v |-> f]
Arr(s) == [t |-> "array", v |-> s]
\* A template string `a${x}b`: its parts in order.
Tmpl(parts) == [t |-> "template", v |-> parts]
\* A string held character by character (the values that get URI-encoded).
Chars(s) == [t |-> "chars", v |-> s]
\* The decimal text of a number: `${limit}`, "$amount".
Numeral(n) == [t |-> "numeral", v |-> n]

EmptyObj == Obj(<<>>)

\* ToBoolean: what `if (x)`, `!x` and `a || b` test.
Truthy(x) ==
    CASE x.t = "undefined" -> FALSE
      [] x.t = "null" -> FALSE
      [] x.t = "nan" -> FALSE
      [] x.t = "string" -> x.v # ""
      [] x.t = "chars" -> x.v # <<>>
      [] x.t = "number" -> x.v # 0
      [] x.t = "boolean" -> x.v
      [] OTHER -> TRUE

\* a || b
Or(a, b) == IF Truthy(a) THEN a ELSE b

\* x.k for x that is neither null nor undefined (those throw a TypeError).
Prop(x, k) ==
    IF x.t = "object" /\ k \in DOMAIN x.v THEN x.v[k] ELSE Undefined

\* x?.k
OptProp(x, k) == IF x.t \in {"null", "undefined"} THEN Undefined ELSE Prop(x, k)

\* amount <= 0 (a comparison with NaN or undefined is false).
LeqZero(x) == x.t = "number" /\ x.v <= 0

----------------------------------------------------------------------------
(* Text conversions. *)

\* `${x}` inside a path: the text of x.
ToStr(x) ==
    CASE x.t = "undefined" -> "undefined"
      [] x.t = "null" -> "null"
      [] x.t = "string" -> x.v
      [] OTHER -> "?"

\* The characters the model's strings are made of, and their escapes.
Newline == "\n"
PercentCode(c) ==
    CASE c = " " -> <<"%", "2", "0">>
      [] c = "&" -> <<"%", "2", "6">>
      [] c = "!" -> <<"%", "2", "1">>
      [] c = Newline -> <<"%", "0", "A">>
      [] OTHER -> <<c>>

RECURSIVE EscapeAll(_, _)
EscapeAll(s, keep) ==
    IF s = <<>> THEN <<>>
    ELSE (IF Head(s) \in keep THEN <<Head(s)>> ELSE PercentCode(Head(s)))
         \o EscapeAll(Tail(s), keep)

AlphaNum == {"a", "b", "u", "n", "d", "e", "f", "i"}
\* encodeURIComponent leaves A-Z a-z 0-9 - _ . ! ~ * ' ( ) alone.
encodeURIComponent(x) ==
    LET s == IF x.t = "chars" THEN x.v
             ELSE <<"u", "n", "d", "e", "f", "i", "n", "e", "d">>
    IN Chars(EscapeAll(s, AlphaNum \cup {"-", "_", ".", "!", "~", "*", "'", "(", ")"}))

\* echo "$query" | jq -sRr @uri: echo appends a newline, jq -sR reads the
\* whole input, newline included, and @uri leaves only A-Z a-z 0-9 - _ . ~
\* alone.
jq_uri(x) == Chars(EscapeAll(x.v \o <<Newline>>, AlphaNum \cup {"-", "_", ".", "~"}))

\* JSON.stringify of a flat object, then the server's parse of it: members
\* whose value is undefined are left out, NaN becomes null.
JSON_stringify(x) ==
    IF x.t # "object" THEN x
    ELSE LET keep == {k \in DOMAIN x.v : x.v[k].t # "undefined"}
         IN Obj([k \in keep |-> IF x.v[k].t = "nan" THEN Null ELSE x.v[k]])

----------------------------------------------------------------------------
(* Requests. *)

BearerOf(key) == <<"Bearer", key>>
NoAuth == <<>>
JsonType == "application/json"

NoBody == [has |-> FALSE, json |-> Null]
Body(j) == [has |-> TRUE, json |-> j]

Endpoint(path, query) == [path |-> path, query |-> query]
Param(name, value) == [name |-> name, value |-> value]

\* BASE_URL's path, which both clients put before every endpoint.
ApiPrefix == <<"api", "v1">>

Request(method, host, ep, auth, ctype, body, hop) ==
    [method |-> method, host |-> host, path |-> ApiPrefix \o ep.path,
     query |-> ep.query, auth |-> auth, ctype |-> ctype, body |-> body,
     hop |-> hop]

----------------------------------------------------------------------------
(* The environment. *)

TrustedHost == "www.moltbook.com"
OtherHost == "elsewhere.example"

EnvKeys == {"", "k_env"}
\* absent: no file; unparseable: not JSON; nokey: a JSON object without a
\* truthy api_key; haskey: {"api_key":"k_file"}.
FileStates == {"absent", "unparseable", "nokey", "haskey"}
FileKey == "k_file"

NoCredentialMessage == "No API key found"

\* getApiKey(): [ok, key].  A read or parse error is caught and falls
\* through to the throw.
getApiKey ==
    IF envKey # "" THEN [ok |-> TRUE, key |-> envKey]
    ELSE IF cfgFile = "haskey" THEN [ok |-> TRUE, key |-> FileKey]
    ELSE [ok |-> FALSE, key |-> ""]

\* get_api_key in the shell: [status, out].  jq's exit status is the
\* function's status when the file exists; jq exits 2 on input it cannot
\* parse.
JqParseErrorStatus == 2
get_api_key ==
    IF envKey # "" THEN [status |-> 0, out |-> envKey]
    ELSE IF cfgFile = "absent" THEN [status |-> 0, out |-> ""]
    ELSE IF cfgFile = "unparseable" THEN [status |-> JqParseErrorStatus, out |-> ""]
    ELSE IF cfgFile = "haskey" THEN [status |-> 0, out |-> FileKey]
    ELSE [status |-> 0, out |-> ""]

----------------------------------------------------------------------------
(* Responses, envelopes, outcomes. *)

\* A response: its status, its body (ok: whether JSON.parse / jq accepts
\* it, json: what it parses to) and the host of its Location header.
NoLocation == ""
Response(status, body, location) ==
    [status |-> status, body |-> body, location |-> location]
JsonBody(j) == [ok |-> TRUE, empty |-> FALSE, json |-> j]
\* A body that is not JSON (an HTML error page), and a body of no bytes.
BadBody == [ok |-> FALSE, empty |-> FALSE, json |-> Undefined]
EmptyBody == [ok |-> FALSE, empty |-> TRUE, json |-> Undefined]
NoResponse == Response(0, EmptyBody, NoLocation)

Is2xx(status) == status >= 200 /\ status < 300

\* ApiResponse<T>
ApiOk(data) == [success |-> TRUE, data |-> data, error |-> Undefined]
ApiFail(error) == [success |-> FALSE, data |-> Undefined, error |-> error]
NoEnvelope == [success |-> FALSE, data |-> Undefined, error |-> Undefined]

\* new Error(message); a transport error also carries the runtime's code.
Error(message) == [t |-> "Error", message |-> message, code |-> ""]
TransportErrors ==
    {[t |-> "Error", message |-> Str("connect ECONNREFUSED"), code |-> "ECONNREFUSED"],
     [t |-> "Error", message |-> Str("socket hang up"), code |-> "ECONNRESET"]}

Returned(v) == [k |-> "return", v |-> v]
Threw(e) == [k |-> "throw", v |-> e]
Exited(status, out) == [k |-> "exit", v |-> [status |-> status, out |-> out]]
NoOutcome == [k |-> "none", v |-> Undefined]

\* What a step of an operation does next.
Invalid(msg) == [do |-> "reject", error |-> Error(Str(msg)), kind |-> "ValidationError"]
Done(o) == [do |-> "done", outcome |-> o]

----------------------------------------------------------------------------
(* The library's dispatcher. *)

\* A dispatcher that takes an empty object for no body at all.
apiRequest_DropsEmptyObject(method, ep, data) ==
    IF ~getApiKey.ok
    THEN [do |-> "reject", error |-> Error(Str(NoCredentialMessage)), kind |-> "NoCredential"]
    ELSE [do |-> "send",
          req |-> Request(method, TrustedHost, ep, BearerOf(getApiKey.key), JsonType,
                          IF Truthy(data) /\ data # EmptyObj
                          THEN Body(JSON_stringify(data)) ELSE NoBody, 0)]

\* apiRequest up to req.end(): getApiKey() throws inside the async
\* function, which rejects the promise before any request exists; then
\* https.request with the headers of lines 116-120, and req.write of the
\* serialized data when there is any.
apiRequest(method, ep, data) ==
    IF ~getApiKey.ok
    THEN [do |-> "reject", error |-> Error(Str(NoCredentialMessage)), kind |-> "NoCredential"]
    ELSE [do |-> "send",
          req |-> Request(method, TrustedHost, ep, BearerOf(getApiKey.key), JsonType,
                          IF Truthy(data) THEN Body(JSON_stringify(data)) ELSE NoBody, 0)]

RequestFailed == "Request failed"
ParseFailed == "Failed to parse response"

\* A dispatcher without the catch: whatever it cannot decode is judged by
\* the status alone.
apiRequest_end_NoCatch(res) ==
    IF Is2xx(res.status) THEN ApiOk(res.body.json) ELSE ApiFail(Str(RequestFailed))

\* res.on('end'): the try block.  JSON.parse throws on a body that is not
\* JSON, and parsed.error throws a TypeError when the body is the JSON
\* null; the one catch takes both.
apiRequest_end(res) ==
    IF ~res.body.ok THEN ApiFail(Str(ParseFailed))
    ELSE IF Is2xx(res.status) THEN ApiOk(res.body.json)
    ELSE IF res.body.json.t = "null" THEN ApiFail(Str(ParseFailed))
    ELSE ApiFail(Or(Prop(res.body.json, "error"),
                    Or(Prop(res.body.json, "message"), Str(RequestFailed))))

\* if (!result.success) throw new Error(result.error || fallback)
FailedWith(result, fallback) == Threw(Error(Or(result.error, Str(fallback))))

----------------------------------------------------------------------------
(* The library's operations.  Each is the code up to its await, and       *)
(* X_resume the code after it.                                            *)

DefaultLimit == 25
DefaultSort == Str("hot")
\* A parameter default applies when the argument is undefined.
Default(x, d) == IF x.t = "undefined" THEN d ELSE x
LimitText(x) == IF x.t = "number" THEN Numeral(x.v) ELSE x

Length(x) == IF x.t = "array" THEN Num(Len(x.v)) ELSE Undefined
\* [...a, ...b] for arrays.
Concat(a, b) == Arr(a.v \o b.v)
Plus(a, b) == Num(a.v + b.v)

SubmoltPosts(submolt, sort, limit) ==
    Endpoint(<<"submolts", ToStr(submolt), "posts">>,
             <<Param("sort", Default(sort, DefaultSort)),
               Param("limit", LimitText(Default(limit, Num(DefaultLimit))))>>)

discover_opportunities(o) ==
    apiRequest("GET",
               Endpoint(<<"search">>,
                        <<Param("q", encodeURIComponent(o.query)),
                          Param("limit", LimitText(Default(o.limit, Num(DefaultLimit))))>>),
               Undefined)

DiscoverResult(data, submoltPosts) ==
    Returned(Obj([posts |-> Concat(Or(Prop(data, "posts"), Arr(<<>>)), submoltPosts),
                  agents |-> Or(Prop(data, "agents"), Arr(<<>>)),
                  submolts |-> Or(Prop(data, "submolts"), Arr(<<>>)),
                  total_results |->
                      Plus(Plus(Or(Length(Prop(data, "posts")), Num(0)),
                                Or(Length(Prop(data, "agents")), Num(0))),
                           Or(Length(Prop(data, "submolts")), Num(0)))]))

\* After the search request.
discover_opportunities_resume(o, searchResult) ==
    IF ~searchResult.success \/ ~Truthy(searchResult.data)
    THEN Done(FailedWith(searchResult, "Failed to search"))
    ELSE IF Truthy(o.submolt)
    THEN apiRequest("GET", SubmoltPosts(o.submolt, o.sort, o.limit), Undefined)
    ELSE Done(DiscoverResult(searchResult.data, Arr(<<>>)))

\* After the submolt request: its failure leaves submoltPosts empty.
discover_opportunities_resume2(o, data, submoltResult) ==
    Done(DiscoverResult(data,
                        IF submoltResult.success /\ Truthy(submoltResult.data)
                        THEN Or(Prop(submoltResult.data, "posts"), Arr(<<>>))
                        ELSE Arr(<<>>)))

contribute_qf(o) ==
    IF ~Truthy(o.pool_id) THEN Invalid("pool_id is required")
    ELSE IF ~Truthy(o.amount) \/ LeqZero(o.amount)
    THEN Invalid("amount must be a positive number")
    ELSE apiRequest("POST",
                    Endpoint(<<"qf", "pools", ToStr(o.pool_id), "contribute">>, <<>>),
                    Obj([amount |-> o.amount]))

\* A contribute that answers with its own summary whatever the server said.
contribute_qf_resume_OwnSummary(o, result) ==
    IF ~result.success THEN Done(FailedWith(result, "Failed to contribute to QF pool"))
    ELSE Done(Returned(Obj([success |-> Bool(TRUE), pool_id |-> o.pool_id,
                            amount_contributed |-> o.amount, new_total |-> o.amount,
                            matching_multiplier |-> Num(1),
                            message |-> Str("Contribution successful")])))

\* contribute_qf after the await: the throw, or result.data || { ... }.
contribute_qf_resume(o, result) ==
    IF ~result.success THEN Done(FailedWith(result, "Failed to contribute to QF pool"))
    ELSE Done(Returned(Or(result.data,
                          Obj([success |-> Bool(TRUE), pool_id |-> o.pool_id,
                               amount_contributed |-> o.amount, new_total |-> o.amount,
                               matching_multiplier |-> Num(1),
                               message |-> Str("Contribution successful")]))))

list_qf_pools(o) == apiRequest("GET", Endpoint(<<"qf", "pools">>, <<>>), Undefined)

list_qf_pools_resume(o, result) ==
    IF ~result.success THEN Done(FailedWith(result, "Failed to list QF pools"))
    ELSE Done(Returned(Or(OptProp(result.data, "pools"), Arr(<<>>))))

get_qf_pool(o) ==
    apiRequest("GET", Endpoint(<<"qf", "pools", ToStr(o.pool_id)>>, <<>>), Undefined)

get_qf_pool_resume(o, result) ==
    IF ~result.success \/ ~Truthy(result.data)
    THEN Done(FailedWith(result, "Failed to get QF pool details"))
    ELSE Done(Returned(result.data))

join_pool(o) ==
    IF ~Truthy(o.pool_id) THEN Invalid("pool_id is required")
    ELSE apiRequest("POST", Endpoint(<<"pools", ToStr(o.pool_id), "join">>, <<>>), EmptyObj)

join_pool_resume(o, result) ==
    IF ~result.success THEN Done(FailedWith(result, "Failed to join pool"))
    ELSE Done(Returned(Or(result.data,
                          Obj([success |-> Bool(TRUE), pool_id |-> o.pool_id,
                               pool_name |-> Str("Unknown"), member_count |-> Num(1),
                               message |-> Str("Successfully joined pool")]))))

leave_pool(o) ==
    apiRequest("DELETE", Endpoint(<<"pools", ToStr(o.pool_id), "leave">>, <<>>), Undefined)

leave_pool_resume(o, result) ==
    IF ~result.success THEN Done(FailedWith(result, "Failed to leave pool"))
    ELSE Done(Returned(Or(result.data,
                          Obj([success |-> Bool(TRUE),
                               message |-> Str("Left pool successfully")]))))

list_joined_pools(o) == apiRequest("GET", Endpoint(<<"pools", "joined">>, <<>>), Undefined)

list_joined_pools_resume(o, result) ==
    IF ~result.success THEN Done(FailedWith(result, "Failed to list joined pools"))
    ELSE Done(Returned(Or(OptProp(result.data, "pools"), Arr(<<>>))))

\* postData: submolt and title, then content and url when truthy.
\* A body builder that names all four fields, supplied or not.
PostData_AllFields(o) == Obj([k \in {"submolt", "title", "content", "url"} |-> o[k]])

\* const data = { submolt, title }; content and url are added when truthy.
PostData(o) ==
    Obj([k \in {"submolt", "title"}
               \cup (IF Truthy(o.content) THEN {"content"} ELSE {})
               \cup (IF Truthy(o.url) THEN {"url"} ELSE {}) |-> o[k]])

post_update(o) ==
    IF ~Truthy(o.submolt) THEN Invalid("submolt is required")
    ELSE IF ~Truthy(o.title) THEN Invalid("title is required")
    ELSE IF ~Truthy(o.content) /\ ~Truthy(o.url)
    THEN Invalid("Either content or url is required")
    ELSE apiRequest("POST", Endpoint(<<"posts">>, <<>>), PostData(o))

post_update_resume(o, result) ==
    IF ~result.success THEN Done(FailedWith(result, "Failed to create post"))
    ELSE Done(Returned(
        Obj([success |-> Bool(TRUE),
             post_id |-> Or(OptProp(result.data, "id"), Str("")),
             submolt |-> o.submolt,
             title |-> o.title,
             url |-> Or(OptProp(result.data, "url"),
                        Tmpl(<<Str("https://www.moltbook.com/m/"), o.submolt,
                               Str("/posts/"), OptProp(result.data, "id")>>)),
             message |-> Str("Post created successfully")])))

add_comment(o) ==
    apiRequest("POST", Endpoint(<<"posts", ToStr(o.post_id), "comments">>, <<>>),
               Obj([k \in {"content"}
                          \cup (IF Truthy(o.parent_id) THEN {"parent_id"} ELSE {}) |-> o[k]]))

add_comment_resume(o, result) ==
    IF ~result.success THEN Done(FailedWith(result, "Failed to add comment"))
    ELSE Done(Returned(Obj([success |-> Bool(TRUE),
                            comment_id |-> Or(OptProp(result.data, "id"), Str(""))])))

upvote_post(o) ==
    apiRequest("POST", Endpoint(<<"posts", ToStr(o.post_id), "upvote">>, <<>>), EmptyObj)

upvote_post_resume(o, result) ==
    IF ~result.success THEN Done(FailedWith(result, "Failed to upvote post"))
    ELSE Done(Returned(Obj([success |-> Bool(TRUE)])))

downvote_post(o) ==
    apiRequest("POST", Endpoint(<<"posts", ToStr(o.post_id), "downvote">>, <<>>), EmptyObj)

downvote_post_resume(o, result) ==
    IF ~result.success THEN Done(FailedWith(result, "Failed to downvote post"))
    ELSE Done(Returned(Obj([success |-> Bool(TRUE)])))

subscribe_submolt(o) ==
    apiRequest("POST", Endpoint(<<"submolts", ToStr(o.submolt_name), "subscribe">>, <<>>),
               EmptyObj)

subscribe_submolt_resume(o, result) ==
    IF ~result.success THEN Done(FailedWith(result, "Failed to subscribe to submolt"))
    ELSE Done(Returned(Obj([success |-> Bool(TRUE)])))

get_profile(o) == apiRequest("GET", Endpoint(<<"agents", "me">>, <<>>), Undefined)

get_profile_resume(o, result) ==
    IF ~result.success \/ ~Truthy(result.data)
    THEN Done(FailedWith(result, "Failed to get profile"))
    ELSE Done(Returned(result.data))

get_status(o) == apiRequest("GET", Endpoint(<<"agents", "status">>, <<>>), Undefined)

get_status_resume(o, result) ==
    IF ~result.success \/ ~Truthy(result.data)
    THEN Done(FailedWith(result, "Failed to get status"))
    ELSE Done(Returned(result.data))

\* A get_feed that refuses a sort key outside hot, new, top and rising.
get_feed_ChecksSort(o) ==
    IF Default(o.sort, DefaultSort) \notin {Str("hot"), Str("new"), Str("top"), Str("rising")}
    THEN Invalid("sort must be one of hot, new, top, rising")
    ELSE apiRequest("GET",
                    IF Truthy(o.submolt) THEN SubmoltPosts(o.submolt, o.sort, o.limit)
                    ELSE Endpoint(<<"posts">>,
                                  <<Param("sort", Default(o.sort, DefaultSort)),
                                    Param("limit", LimitText(Default(o.limit, Num(DefaultLimit))))>>),
                    Undefined)

get_feed(o) ==
    apiRequest("GET",
               IF Truthy(o.submolt) THEN SubmoltPosts(o.submolt, o.sort, o.limit)
               ELSE Endpoint(<<"posts">>,
                             <<Param("sort", Default(o.sort, DefaultSort)),
                               Param("limit", LimitText(Default(o.limit, Num(DefaultLimit))))>>),
               Undefined)

get_feed_resume(o, result) ==
    IF ~result.success THEN Done(FailedWith(result, "Failed to get feed"))
    ELSE IF result.data.t = "array" THEN Done(Returned(result.data))
    ELSE Done(Returned(Or(OptProp(result.data, "posts"), Arr(<<>>))))

----------------------------------------------------------------------------
(* The shell client.  Each cmd_X is the function up to its api_request;   *)
(* the pipe into `jq .` that follows is CliFinish.                        *)

\* API_KEY=$(get_api_key), read once when the script starts.
API_KEY == get_api_key.out

Usage(line) ==
    [do |-> "exit", status |-> 1, out |-> <<Str(line)>>, kind |-> "ValidationError"]

\* api_request: curl -s --location-trusted -X method URL with the two
\* headers, and -d "$data" when data is not empty.  A jq that failed to
\* build the data left it empty.
api_request(echo, method, ep, data) ==
    [do |-> "send", echo |-> echo,
     req |-> Request(method, TrustedHost, ep, BearerOf(API_KEY), JsonType, data, 0)]

\* check_auth, then the rest of the command.
check_auth(rest) ==
    IF API_KEY = ""
    THEN [do |-> "exit", status |-> 1, out |-> <<Str("Error: No API key found.")>>,
          kind |-> "NoCredential"]
    ELSE rest

CliLimit == 25
SearchEndpoint(query) ==
    Endpoint(<<"search">>, <<Param("q", jq_uri(query)), Param("limit", Numeral(CliLimit))>>)

cmd_discover(a) ==
    IF a.query.v = <<>> THEN Usage("Usage: moltbook.sh discover <query>")
    ELSE check_auth(api_request(<<Str("Searching for:"), a.query>>, "GET",
                                SearchEndpoint(a.query), NoBody))

cmd_search(a) ==
    IF a.query.v = <<>> THEN Usage("Usage: moltbook.sh search <query>")
    ELSE check_auth(api_request(<<>>, "GET", SearchEndpoint(a.query), NoBody))

cmd_feed(a) ==
    LET sort == IF a.sort = "" THEN "hot" ELSE a.sort
        q == <<Param("sort", Str(sort)), Param("limit", Numeral(CliLimit))>>
    IN check_auth(api_request(<<>>, "GET",
                              IF a.submolt # ""
                              THEN Endpoint(<<"submolts", a.submolt, "posts">>, q)
                              ELSE Endpoint(<<"posts">>, q),
                              NoBody))

cmd_qf_list(a) ==
    check_auth(api_request(<<Str("Fetching QF pools...")>>, "GET",
                           Endpoint(<<"qf", "pools">>, <<>>), NoBody))

cmd_qf_info(a) ==
    IF a.pool_id = "" THEN Usage("Usage: moltbook.sh qf_info <pool_id>")
    ELSE check_auth(api_request(<<>>, "GET", Endpoint(<<"qf", "pools", a.pool_id>>, <<>>),
                                NoBody))

\* jq -n --arg amt "$amount" '{amount: ($amt | tonumber)}': jq fails on a
\* text that is no number, and `local data=$(...)` hides that failure.
cmd_qf_contribute(a) ==
    IF a.pool_id = "" \/ a.amount = Str("")
    THEN Usage("Usage: moltbook.sh qf_contribute <pool_id> <amount>")
    ELSE check_auth(api_request(<<>>, "POST",
                                Endpoint(<<"qf", "pools", a.pool_id, "contribute">>, <<>>),
                                IF a.amount.t = "numeral"
                                THEN Body(Obj([amount |-> Num(a.amount.v)]))
                                ELSE NoBody))

cmd_pool_join(a) ==
    IF a.pool_id = "" THEN Usage("Usage: moltbook.sh pool_join <pool_id>")
    ELSE check_auth(api_request(<<>>, "POST", Endpoint(<<"pools", a.pool_id, "join">>, <<>>),
                                Body(EmptyObj)))

cmd_pool_list(a) ==
    check_auth(api_request(<<>>, "GET", Endpoint(<<"pools", "joined">>, <<>>), NoBody))

cmd_pool_leave(a) ==
    IF a.pool_id = "" THEN Usage("Usage: moltbook.sh pool_leave <pool_id>")
    ELSE check_auth(api_request(<<>>, "DELETE",
                                Endpoint(<<"pools", a.pool_id, "leave">>, <<>>), NoBody))

cmd_post(a) ==
    IF a.submolt = "" \/ a.title = "" \/ a.content = ""
    THEN Usage("Usage: moltbook.sh post <submolt> <title> <content>")
    ELSE check_auth(api_request(<<>>, "POST", Endpoint(<<"posts">>, <<>>),
                                Body(Obj([submolt |-> Str(a.submolt), title |-> Str(a.title),
                                          content |-> Str(a.content)]))))

cmd_post_link(a) ==
    IF a.submolt = "" \/ a.title = "" \/ a.url = ""
    THEN Usage("Usage: moltbook.sh post_link <submolt> <title> <url>")
    ELSE check_auth(api_request(<<>>, "POST", Endpoint(<<"posts">>, <<>>),
                                Body(Obj([submolt |-> Str(a.submolt), title |-> Str(a.title),
                                          url |-> Str(a.url)]))))

cmd_comment(a) ==
    IF a.post_id = "" \/ a.content = ""
    THEN Usage("Usage: moltbook.sh comment <post_id> <content>")
    ELSE check_auth(api_request(<<>>, "POST",
                                Endpoint(<<"posts", a.post_id, "comments">>, <<>>),
                                Body(Obj([content |-> Str(a.content)]))))

cmd_reply(a) ==
    IF a.post_id = "" \/ a.parent_id = "" \/ a.content = ""
    THEN Usage("Usage: moltbook.sh reply <post_id> <parent_id> <content>")
    ELSE check_auth(api_request(<<>>, "POST",
                                Endpoint(<<"posts", a.post_id, "comments">>, <<>>),
                                Body(Obj([content |-> Str(a.content),
                                          parent_id |-> Str(a.parent_id)]))))

cmd_upvote(a) ==
    IF a.post_id = "" THEN Usage("Usage: moltbook.sh upvote <post_id>")
    ELSE check_auth(api_request(<<>>, "POST",
                                Endpoint(<<"posts", a.post_id, "upvote">>, <<>>),
                                Body(EmptyObj)))

cmd_downvote(a) ==
    IF a.post_id = "" THEN Usage("Usage: moltbook.sh downvote <post_id>")
    ELSE check_auth(api_request(<<>>, "POST",
                                Endpoint(<<"posts", a.post_id, "downvote">>, <<>>),
                                Body(EmptyObj)))

cmd_submolts(a) ==
    check_auth(api_request(<<>>, "GET", Endpoint(<<"submolts">>, <<>>), NoBody))

cmd_submolt_info(a) ==
    IF a.name = "" THEN Usage("Usage: moltbook.sh submolt_info <name>")
    ELSE check_auth(api_request(<<>>, "GET", Endpoint(<<"submolts", a.name>>, <<>>), NoBody))

cmd_submolt_create(a) ==
    IF a.name = "" \/ a.description = ""
    THEN Usage("Usage: moltbook.sh submolt_create <name> <description>")
    ELSE check_auth(api_request(<<>>, "POST", Endpoint(<<"submolts">>, <<>>),
                                Body(Obj([name |-> Str(a.name),
                                          description |-> Str(a.description)]))))

cmd_subscribe(a) ==
    IF a.name = "" THEN Usage("Usage: moltbook.sh subscribe <submolt_name>")
    ELSE check_auth(api_request(<<>>, "POST",
                                Endpoint(<<"submolts", a.name, "subscribe">>, <<>>),
                                Body(EmptyObj)))

cmd_unsubscribe(a) ==
    IF a.name = "" THEN Usage("Usage: moltbook.sh unsubscribe <submolt_name>")
    ELSE check_auth(api_request(<<>>, "DELETE",
                                Endpoint(<<"submolts", a.name, "subscribe">>, <<>>), NoBody))

cmd_status(a) ==
    check_auth(api_request(<<>>, "GET", Endpoint(<<"agents", "status">>, <<>>), NoBody))

cmd_profile(a) ==
    check_auth(api_request(<<>>, "GET", Endpoint(<<"agents", "me">>, <<>>), NoBody))

cmd_profile_update(a) ==
    IF a.description = "" THEN Usage("Usage: moltbook.sh profile_update <description>")
    ELSE check_auth(api_request(<<>>, "PATCH", Endpoint(<<"agents", "me">>, <<>>),
                                Body(Obj([description |-> Str(a.description)]))))

cmd_follow(a) ==
    IF a.agent_name = "" THEN Usage("Usage: moltbook.sh follow <agent_name>")
    ELSE check_auth(api_request(<<>>, "POST",
                                Endpoint(<<"agents", a.agent_name, "follow">>, <<>>),
                                Body(EmptyObj)))

cmd_unfollow(a) ==
    IF a.agent_name = "" THEN Usage("Usage: moltbook.sh unfollow <agent_name>")
    ELSE check_auth(api_request(<<>>, "DELETE",
                                Endpoint(<<"agents", a.agent_name, "follow">>, <<>>), NoBody))

cmd_agent_info(a) ==
    IF a.agent_name = "" THEN Usage("Usage: moltbook.sh agent_info <agent_name>")
    ELSE check_auth(api_request(<<>>, "GET",
                                Endpoint(<<"agents", "profile">>,
                                         <<Param("name", Str(a.agent_name))>>),
                                NoBody))

show_help == [do |-> "exit", status |-> 0, out |-> <<Str("Moltbook API Client")>>, kind |-> "ok"]

----------------------------------------------------------------------------
(* What callers pass and what the server may answer. *)

LibTexts == {Undefined, Str(""), Str("p1")}
LibOptTexts == {Undefined, Str("x")}
LibAmounts == {Undefined, NaN, Num(-5), Num(0), Num(100)}
LibQueries == {Undefined, Chars(<<>>), Chars(<<"a", " ", "&", "b">>)}
LibSorts == {Undefined, Str("new"), Str("bogus")}
LibLimits == {Undefined, Num(5)}

CliTexts == {"", "p1"}
CliAmounts == {Str(""), Str("abc"), Numeral(-5), Numeral(0), Numeral(100)}
CliQueries == {Chars(<<>>), Chars(<<"a", " ", "&", "b">>)}
CliSorts == {"", "new", "bogus"}

NoArgs == {<<>>}

LibVerbs ==
    {"discover_opportunities", "contribute_qf", "list_qf_pools", "get_qf_pool",
     "join_pool", "leave_pool", "list_joined_pools", "post_update", "add_comment",
     "upvote_post", "downvote_post", "subscribe_submolt", "get_profile", "get_status",
     "get_feed"}

LibArgs(verb) ==
    CASE verb = "discover_opportunities" ->
             [query : LibQueries, limit : {Undefined}, sort : {Undefined, Str("new")},
              submolt : LibOptTexts]
      [] verb = "contribute_qf" -> [pool_id : LibTexts, amount : LibAmounts]
      [] verb \in {"get_qf_pool", "join_pool", "leave_pool"} -> [pool_id : LibTexts]
      [] verb = "post_update" ->
             [submolt : LibTexts, title : LibTexts, content : LibTexts, url : LibTexts]
      [] verb = "add_comment" ->
             [post_id : LibTexts, content : LibTexts, parent_id : LibOptTexts]
      [] verb \in {"upvote_post", "downvote_post"} -> [post_id : LibTexts]
      [] verb = "subscribe_submolt" -> [submolt_name : LibTexts]
      [] verb = "get_feed" -> [sort : LibSorts, limit : LibLimits, submolt : LibTexts]
      [] OTHER -> NoArgs

\* The arguments the operation's signature marks as required.
LibRequired(verb) ==
    CASE verb = "discover_opportunities" -> {"query"}
      [] verb = "contribute_qf" -> {"pool_id", "amount"}
      [] verb \in {"get_qf_pool", "join_pool", "leave_pool"} -> {"pool_id"}
      [] verb = "post_update" -> {"submolt", "title"}
      [] verb = "add_comment" -> {"post_id", "content"}
      [] verb \in {"upvote_post", "downvote_post"} -> {"post_id"}
      [] verb = "subscribe_submolt" -> {"submolt_name"}
      [] OTHER -> {}

LibStart(verb, a) ==
    CASE verb = "discover_opportunities" -> discover_opportunities(a)
      [] verb = "contribute_qf" -> contribute_qf(a)
      [] verb = "list_qf_pools" -> list_qf_pools(a)
      [] verb = "get_qf_pool" -> get_qf_pool(a)
      [] verb = "join_pool" -> join_pool(a)
      [] verb = "leave_pool" -> leave_pool(a)
      [] verb = "list_joined_pools" -> list_joined_pools(a)
      [] verb = "post_update" -> post_update(a)
      [] verb = "add_comment" -> add_comment(a)
      [] verb = "upvote_post" -> upvote_post(a)
      [] verb = "downvote_post" -> downvote_post(a)
      [] verb = "subscribe_submolt" -> subscribe_submolt(a)
      [] verb = "get_profile" -> get_profile(a)
      [] verb = "get_status" -> get_status(a)
      [] verb = "get_feed" -> get_feed(a)

LibResume(i, result) ==
    CASE i.verb = "discover_opportunities" ->
             IF i.step = 1 THEN discover_opportunities_resume(i.args, result)
             ELSE discover_opportunities_resume2(i.args, i.saved, result)
      [] i.verb = "contribute_qf" -> contribute_qf_resume(i.args, result)
      [] i.verb = "list_qf_pools" -> list_qf_pools_resume(i.args, result)
      [] i.verb = "get_qf_pool" -> get_qf_pool_resume(i.args, result)
      [] i.verb = "join_pool" -> join_pool_resume(i.args, result)
      [] i.verb = "leave_pool" -> leave_pool_resume(i.args, result)
      [] i.verb = "list_joined_pools" -> list_joined_pools_resume(i.args, result)
      [] i.verb = "post_update" -> post_update_resume(i.args, result)
      [] i.verb = "add_comment" -> add_comment_resume(i.args, result)
      [] i.verb = "upvote_post" -> upvote_post_resume(i.args, result)
      [] i.verb = "downvote_post" -> downvote_post_resume(i.args, result)
      [] i.verb = "subscribe_submolt" -> subscribe_submolt_resume(i.args, result)
      [] i.verb = "get_profile" -> get_profile_resume(i.args, result)
      [] i.verb = "get_status" -> get_status_resume(i.args, result)
      [] i.verb = "get_feed" -> get_feed_resume(i.args, result)

CliVerbs ==
    {"discover", "search", "feed", "qf_list", "qf_info", "qf_contribute", "pool_join",
     "pool_list", "pool_leave", "post", "post_link", "comment", "reply", "upvote",
     "downvote", "submolts", "submolt_info", "submolt_create", "subscribe",
     "unsubscribe", "status", "profile", "profile_update", "follow", "unfollow",
     "agent_info", "help", "frobnicate"}

CliArgs(verb) ==
    CASE verb \in {"discover", "search"} -> [query : CliQueries]
      [] verb = "feed" -> [sort : CliSorts, submolt : CliTexts]
      [] verb \in {"qf_info", "pool_join", "pool_leave"} -> [pool_id : CliTexts]
      [] verb = "qf_contribute" -> [pool_id : CliTexts, amount : CliAmounts]
      [] verb = "post" -> [submolt : CliTexts, title : CliTexts, content : CliTexts]
      [] verb = "post_link" -> [submolt : CliTexts, title : CliTexts, url : CliTexts]
      [] verb = "comment" -> [post_id : CliTexts, content : CliTexts]
      [] verb = "reply" -> [post_id : CliTexts, parent_id : CliTexts, content : CliTexts]
      [] verb \in {"upvote", "downvote"} -> [post_id : CliTexts]
      [] verb \in {"submolt_info", "subscribe", "unsubscribe"} -> [name : CliTexts]
      [] verb = "submolt_create" -> [name : CliTexts, description : CliTexts]
      [] verb = "profile_update" -> [description : CliTexts]
      [] verb \in {"follow", "unfollow", "agent_info"} -> [agent_name : CliTexts]
      [] OTHER -> NoArgs

\* The arguments the usage line of the command names in <angle brackets>.
CliRequired(verb) ==
    CASE verb \in {"discover", "search"} -> {"query"}
      [] verb \in {"qf_info", "pool_join", "pool_leave"} -> {"pool_id"}
      [] verb = "qf_contribute" -> {"pool_id", "amount"}
      [] verb = "post" -> {"submolt", "title", "content"}
      [] verb = "post_link" -> {"submolt", "title", "url"}
      [] verb = "comment" -> {"post_id", "content"}
      [] verb = "reply" -> {"post_id", "parent_id", "content"}
      [] verb \in {"upvote", "downvote"} -> {"post_id"}
      [] verb \in {"submolt_info", "subscribe", "unsubscribe"} -> {"name"}
      [] verb = "submolt_create" -> {"name", "description"}
      [] verb = "profile_update" -> {"description"}
      [] verb \in {"follow", "unfollow", "agent_info"} -> {"agent_name"}
      [] OTHER -> {}

\* The command router (the case statement that ends the script).
main(verb, a) ==
    CASE verb = "discover" -> cmd_discover(a)
      [] verb = "search" -> cmd_search(a)
      [] verb = "feed" -> cmd_feed(a)
      [] verb = "qf_list" -> cmd_qf_list(a)
      [] verb = "qf_info" -> cmd_qf_info(a)
      [] verb = "qf_contribute" -> cmd_qf_contribute(a)
      [] verb = "pool_join" -> cmd_pool_join(a)
      [] verb = "pool_list" -> cmd_pool_list(a)
      [] verb = "pool_leave" -> cmd_pool_leave(a)
      [] verb = "post" -> cmd_post(a)
      [] verb = "post_link" -> cmd_post_link(a)
      [] verb = "comment" -> cmd_comment(a)
      [] verb = "reply" -> cmd_reply(a)
      [] verb = "upvote" -> cmd_upvote(a)
      [] verb = "downvote" -> cmd_downvote(a)
      [] verb = "submolts" -> cmd_submolts(a)
      [] verb = "submolt_info" -> cmd_submolt_info(a)
      [] verb = "submolt_create" -> cmd_submolt_create(a)
      [] verb = "subscribe" -> cmd_subscribe(a)
      [] verb = "unsubscribe" -> cmd_unsubscribe(a)
      [] verb = "status" -> cmd_status(a)
      [] verb = "profile" -> cmd_profile(a)
      [] verb = "profile_update" -> cmd_profile_update(a)
      [] verb = "follow" -> cmd_follow(a)
      [] verb = "unfollow" -> cmd_unfollow(a)
      [] verb = "agent_info" -> cmd_agent_info(a)
      [] verb = "help" -> show_help
      [] OTHER -> [do |-> "exit", status |-> 1, out |-> <<Str("Unknown command")>>,
                   kind |-> "UnknownCommand"]

Bodies ==
    {BadBody, EmptyBody,
     JsonBody(Null),
     JsonBody(EmptyObj),
     JsonBody(Obj([id |-> Str("p1")])),
     JsonBody(Obj([error |-> Str("not found")])),
     JsonBody(Obj([message |-> Str("slow down")])),
     JsonBody(Obj([error |-> Str(""), message |-> Str("slow down")])),
     JsonBody(Obj([error |-> Str("not found"), message |-> Str("slow down")])),
     JsonBody(Obj([error |-> Str("pool_id is required")])),
     JsonBody(Arr(<<Str("post1")>>)),
     JsonBody(Obj([posts |-> Arr(<<Str("post1")>>)]))}

FinalStatuses == {200, 404}
RedirectStatuses == {302, 307}
\* After 301, 302 and 303 curl goes on without the request body.
BodyDroppingStatuses == {301, 302, 303}

Responses ==
    {Response(st, b, NoLocation) : st \in FinalStatuses, b \in Bodies}
    \cup {Response(st, b, h) : st \in RedirectStatuses, b \in {BadBody, JsonBody(EmptyObj)},
                               h \in {TrustedHost, OtherHost}}

----------------------------------------------------------------------------
(* The state machine. *)

NoInv == [impl |-> "none", verb |-> "", args |-> <<>>, step |-> 0, saved |-> Undefined,
          echo |-> <<>>]
NoOther == [kind |-> "none", outcome |-> NoOutcome]

Init ==
    /\ envKey \in EnvKeys
    /\ cfgFile \in FileStates
    /\ pc = "idle"
    /\ inv = NoInv
    /\ requests = <<>>
    /\ response = NoResponse
    /\ envelope = NoEnvelope
    /\ outcome = NoOutcome
    /\ kind = "none"
    /\ other = NoOther

\* Between invocations the user may export another key or rewrite the file.
SetEnvironment ==
    /\ pc = "idle"
    /\ envKey' \in EnvKeys
    /\ cfgFile' \in FileStates
    /\ UNCHANGED <<pc, inv, requests, response, envelope, outcome, kind, other>>

\* How the path a response came by is called.
ResponseKind(res) ==
    IF ~res.body.ok THEN "ParseFailure"
    ELSE IF Is2xx(res.status) THEN "Success"
    ELSE "ApplicationError"

\* A caller invokes an exported operation: the code up to the first await.
LibCall(verbs) ==
    /\ pc = "idle"
    /\ \E verb \in verbs : \E a \in LibArgs(verb) :
         LET step == LibStart(verb, a) IN
         /\ inv' = [impl |-> "lib", verb |-> verb, args |-> a, step |-> 1,
                    saved |-> Undefined, echo |-> <<>>]
         /\ IF step.do = "send"
            THEN /\ pc' = "await"
                 /\ requests' = <<step.req>>
                 /\ outcome' = NoOutcome
                 /\ kind' = "none"
            ELSE /\ pc' = "done"
                 /\ requests' = <<>>
                 /\ outcome' = Threw(step.error)
                 /\ kind' = step.kind
    /\ response' = NoResponse
    /\ envelope' = NoEnvelope
    /\ UNCHANGED <<envKey, cfgFile, other>>

\* The script runs: set -e, API_KEY=$(get_api_key), the router, the
\* command up to its curl.  A failing get_api_key ends the script there,
\* with its status and nothing printed.
CliRun ==
    /\ pc = "idle"
    /\ \E verb \in CliVerbs : \E a \in CliArgs(verb) :
         LET step == main(verb, a) IN
         /\ inv' = [impl |-> "cli", verb |-> verb, args |-> a, step |-> 1,
                    saved |-> Undefined,
                    echo |-> IF get_api_key.status = 0 /\ step.do = "send"
                             THEN step.echo ELSE <<>>]
         /\ IF get_api_key.status # 0
            THEN /\ pc' = "done"
                 /\ requests' = <<>>
                 /\ outcome' = Exited(get_api_key.status, <<>>)
                 /\ kind' = "Crash"
            ELSE IF step.do = "send"
            THEN /\ pc' = "await"
                 /\ requests' = <<step.req>>
                 /\ outcome' = NoOutcome
                 /\ kind' = "none"
            ELSE /\ pc' = "done"
                 /\ requests' = <<>>
                 /\ outcome' = Exited(step.status, step.out)
                 /\ kind' = step.kind
    /\ response' = NoResponse
    /\ envelope' = NoEnvelope
    /\ UNCHANGED <<envKey, cfgFile, other>>

\* curl --location-trusted on a 3xx with a Location: the same method
\* (-X), the same headers whatever the host, and the body unless the
\* status is one that drops it.
curl_redirect(req, res) ==
    [req EXCEPT !.host = res.location,
                !.hop = req.hop + 1,
                !.body = IF res.status \in BodyDroppingStatuses THEN NoBody ELSE req.body]

IsRedirect(res) == res.status \in RedirectStatuses /\ res.location # NoLocation

\* A pipeline that fails on an HTTP error status, as curl -f would.
CliFinish_FailsOnHttpError(echo, res) ==
    IF ~Is2xx(res.status) THEN Exited(22, echo)
    ELSE IF res.body.ok THEN Exited(0, echo \o <<res.body.json>>)
    ELSE IF res.body.empty THEN Exited(0, echo)
    ELSE Exited(JqParseErrorStatus, echo \o <<Str("jq: error: parse error")>>)

\* ... | jq .  prints the body it can parse; prints nothing and succeeds
\* on no input; fails on anything else, and its status ends the script.
CliFinish(echo, res) ==
    IF res.body.ok THEN Exited(0, echo \o <<res.body.json>>)
    ELSE IF res.body.empty THEN Exited(0, echo)
    ELSE Exited(JqParseErrorStatus, echo \o <<Str("jq: error: parse error")>>)

LibRespond(res) ==
    LET result == apiRequest_end(res)
        step == LibResume(inv, result)
    IN /\ response' = res
       /\ envelope' = result
       /\ IF step.do = "done"
          THEN /\ pc' = "done"
               /\ outcome' = step.outcome
               /\ kind' = IF step.outcome.k = "return" THEN "Success" ELSE ResponseKind(res)
               /\ UNCHANGED <<inv, requests>>
          ELSE IF step.do = "send"
          THEN /\ pc' = "await"
               /\ inv' = [inv EXCEPT !.step = inv.step + 1, !.saved = result.data]
               /\ requests' = Append(requests, step.req)
               /\ UNCHANGED <<outcome, kind>>
          ELSE /\ pc' = "done"
               /\ outcome' = Threw(step.error)
               /\ kind' = step.kind
               /\ UNCHANGED <<inv, requests>>

CliRespond(res) ==
    IF IsRedirect(res)
    THEN /\ Len(requests) <= MaxHops
         /\ requests' = Append(requests, curl_redirect(requests[Len(requests)], res))
         /\ UNCHANGED <<pc, inv, response, envelope, outcome, kind>>
    ELSE /\ pc' = "done"
         /\ response' = res
         /\ outcome' = CliFinish(inv.echo, res)
         /\ kind' = ResponseKind(res)
         /\ UNCHANGED <<inv, requests, envelope>>

\* The server answers the request in flight.
Respond ==
    /\ pc = "await"
    /\ \E res \in Responses :
         IF inv.impl = "lib" THEN LibRespond(res) ELSE CliRespond(res)
    /\ UNCHANGED <<envKey, cfgFile, other>>

\* No answer is obtained.  Library: req.on('error') rejects with the
\* runtime's error, which every operation lets through.  Shell: curl -s
\* prints nothing, jq reads no input and the pipeline's status is jq's.
TransportError ==
    /\ pc = "await"
    /\ pc' = "done"
    /\ kind' = "NetworkError"
    /\ IF inv.impl = "lib"
       THEN \E e \in TransportErrors : outcome' = Threw(e)
       ELSE outcome' = Exited(0, inv.echo)
    /\ UNCHANGED <<envKey, cfgFile, inv, requests, response, envelope, other>>

\* The caller has its result; the next invocation starts afresh.
Return ==
    /\ pc = "done"
    /\ pc' = "idle"
    /\ inv' = NoInv
    /\ requests' = <<>>
    /\ response' = NoResponse
    /\ envelope' = NoEnvelope
    /\ outcome' = NoOutcome
    /\ kind' = "none"
    /\ UNCHANGED <<envKey, cfgFile, other>>

Next ==
    \/ SetEnvironment
    \/ LibCall(LibVerbs)
    \/ CliRun
    \/ Respond
    \/ TransportError
    \/ Return

Spec == Init /\ [][Next]_vars

\* The same library, with one earlier invocation's result kept beside the
\* current one, so that what two callers observe can be compared.
PairVerbs == {"contribute_qf", "join_pool", "get_status"}

Remember ==
    /\ pc = "done"
    /\ other = NoOther
    /\ other' = [kind |-> kind, outcome |-> outcome]
    /\ UNCHANGED <<envKey, cfgFile, pc, inv, requests, response, envelope, outcome, kind>>

NextPair ==
    \/ SetEnvironment
    \/ LibCall(PairVerbs)
    \/ Respond
    \/ TransportError
    \/ Return
    \/ Remember

SpecPair == Init /\ [][NextPair]_vars

----------------------------------------------------------------------------
(* The library's dispatcher event by event.  Where Respond takes a whole  *)
(* response at once, here the response callback runs first (pc becomes    *)
(* "receiving"), and then the stream either ends or the connection goes   *)
(* away under it (pc becomes "closed" when nothing more will arrive and   *)
(* neither resolve nor reject has been called).                           *)

StreamVerbs == {"get_status", "join_pool", "discover_opportunities"}

\* https.request's callback: the status line and the headers are in, the
\* 'data' and 'end' listeners are attached, the body is still empty.
ResponseStarts ==
    /\ pc = "await"
    /\ inv.impl = "lib"
    /\ \E res \in Responses : response' = Response(res.status, EmptyBody, res.location)
    /\ pc' = "receiving"
    /\ UNCHANGED <<envKey, cfgFile, inv, requests, envelope, outcome, kind, other>>

\* res 'end' after the whole body: the handler of lines 126-137.
ResponseEnds ==
    /\ pc = "receiving"
    /\ \E b \in Bodies : LibRespond([response EXCEPT !.body = b])
    /\ UNCHANGED <<envKey, cfgFile, other>>

\* The connection closes, or the response stream fails, after the response
\* started and before its end.  The request emits no 'error' any more (it
\* has its response); the response emits 'aborted', and 'error' only to a
\* listener, of which there is none.  Whether 'end' still follows is the
\* runtime's: where it does, the handler runs on what had arrived; where
\* it does not, no listener of the dispatcher is ever called again.
ConnectionDrops ==
    /\ pc = "receiving"
    /\ \/ \E b \in Bodies : LibRespond([response EXCEPT !.body = b])
       \/ /\ pc' = "closed"
          /\ UNCHANGED <<inv, requests, response, envelope, outcome, kind>>
    /\ UNCHANGED <<envKey, cfgFile, other>>

NextStream ==
    \/ SetEnvironment
    \/ LibCall(StreamVerbs)
    \/ ResponseStarts
    \/ ResponseEnds
    \/ ConnectionDrops
    \/ TransportError
    \/ Return

\* The event loop delivers an event that is due: the machine does not stop
\* while a step is possible.
SpecStream == Init /\ [][NextStream]_vars /\ WF_vars(NextStream)

----------------------------------------------------------------------------
(* Vocabulary of the properties. *)

\* An argument that is empty or absent.
IsMissing(x) == x \in {Undefined, Str(""), Chars(<<>>)}
CliIsMissing(k, x) == IF k \in {"amount", "query"} THEN IsMissing(x) ELSE x = ""

\* Some required argument of the invocation is empty or absent.
MissingRequired(i) ==
    IF i.impl = "lib" THEN \E k \in LibRequired(i.verb) : IsMissing(i.args[k])
    ELSE IF i.impl = "cli" THEN \E k \in CliRequired(i.verb) : CliIsMissing(k, i.args[k])
    ELSE FALSE

\* No credential can be resolved from the environment as it stands.
NoCredentialResolvable == envKey = "" /\ cfgFile # "haskey"

\* The CLI verbs that call check_auth (all but help and an unknown verb).
AuthenticatedVerb(i) ==
    i.impl = "lib" \/ (i.impl = "cli" /\ i.verb \notin {"help", "frobnicate"})

\* The caller got a failure: a thrown error, a non-zero exit.
Failed(o) == o.k = "throw" \/ (o.k = "exit" /\ o.v.status # 0)

----------------------------------------------------------------------------
(* C1.  For every verb with required arguments, in the library and in the  *)
(* shell client, an invocation with a required argument empty or absent    *)
(* ends in a validation failure and issues no HTTP request.  Stated for    *)
(* the invocations that reach the verb's own code (the shell script did    *)
(* not die while reading the credentials file).                            *)
(* The library checks nothing in get_qf_pool, leave_pool, add_comment,     *)
(* upvote_post, downvote_post, subscribe_submolt and                       *)
(* discover_opportunities: the statement fails there.                      *)
C1_MissingArgumentFailsLocally ==
    (MissingRequired(inv) /\ kind # "Crash") =>
        /\ requests = <<>>
        /\ (pc = "done" => kind = "ValidationError")

(* C2.  With no credential resolvable, every library operation and every   *)
(* authenticated shell verb ends in the NoCredential failure, and no HTTP  *)
(* request is issued.  Stated for the invocations whose arguments pass the *)
(* local validation, which both clients run first.                         *)
(* The shell script does not get that far when the credentials file        *)
(* cannot be parsed: see C13.                                              *)
C2_NoCredentialShortCircuits ==
    (NoCredentialResolvable /\ AuthenticatedVerb(inv) /\ kind # "ValidationError") =>
        /\ requests = <<>>
        /\ (pc = "done" => kind = "NoCredential")

(* C3.  The Authorization bearer token is sent to www.moltbook.com only:   *)
(* no request to another host, first hop or redirect hop, carries it.      *)
(* curl --location-trusted sends it to whatever host a redirect names.     *)
C3_TokenOnlyToTrustedHost ==
    \A n \in 1..Len(requests) :
        requests[n].auth # NoAuth => requests[n].host = TrustedHost

(* C4.  Credential resolution in both clients: the environment variable,   *)
(* when set and not empty, is the credential whatever the file holds;      *)
(* otherwise the file's api_key when present and not empty; otherwise the  *)
(* invocation fails with NoCredential.  Stated for authenticated verbs     *)
(* whose arguments pass validation.                                        *)
(* The last clause fails in the shell client on an unparseable file: C13.  *)
C4_ResolutionPrecedence ==
    (AuthenticatedVerb(inv) /\ kind # "ValidationError" /\ pc # "idle") =>
        IF envKey # ""
        THEN requests # <<>> /\ \A n \in 1..Len(requests) : requests[n].auth = BearerOf(envKey)
        ELSE IF cfgFile = "haskey"
        THEN requests # <<>> /\ \A n \in 1..Len(requests) : requests[n].auth = BearerOf(FileKey)
        ELSE requests = <<>> /\ kind = "NoCredential"

\* The envelope the normalization rule gives a response whose body parses.
NormalizedEnvelope(res) ==
    IF Is2xx(res.status) THEN ApiOk(res.body.json)
    ELSE ApiFail(Or(OptProp(res.body.json, "error"),
                    Or(OptProp(res.body.json, "message"), Str(RequestFailed))))

(* C5.  For every response whose body parses as JSON the library's         *)
(* dispatcher returns {success:true, data:<body>} on a 2xx status, and on  *)
(* any other status {success:false, error:E}, E being the body's error     *)
(* field if truthy, else its message field if truthy, else the generic     *)
(* fallback.                                                               *)
(* A body that is the JSON value null, with a non-2xx status, comes back   *)
(* as the parse-failure envelope instead.                                  *)
C5_ParsedBodyNormalized ==
    (inv.impl = "lib" /\ response # NoResponse /\ response.body.ok) =>
        envelope = NormalizedEnvelope(response)

(* C6.  As stated: for every response whose body cannot be parsed as    *)
(* JSON, whatever the status, the library's dispatcher returns            *)
(* {success:false, error:"parse failure"}.                                *)
C6_ParseFailureEnvelope_AsStated ==
    (inv.impl = "lib" /\ response # NoResponse /\ ~response.body.ok) =>
        envelope = ApiFail(Str("parse failure"))

(* C6.  For every response whose body cannot be parsed as JSON, whatever  *)
(* the status, the library's dispatcher resolves with the envelope        *)
(* {success:false, error:"Failed to parse response"}: the decode error    *)
(* becomes that value, it is not thrown and the promise is not rejected.  *)
C6_ParseFailureEnvelope ==
    (inv.impl = "lib" /\ response # NoResponse /\ ~response.body.ok) =>
        envelope = ApiFail(Str(ParseFailed))

\* A 2xx answer that is not JSON has been turned into the envelope.
C6_Witness ==
    /\ inv.impl = "lib"
    /\ pc = "done"
    /\ response # NoResponse
    /\ ~response.body.ok
    /\ Is2xx(response.status)
    /\ envelope = ApiFail(Str(ParseFailed))

\* The four failure kinds a caller is to tell apart.
FailureKinds == {"ValidationError", "NoCredential", "NetworkError", "ApplicationError"}

(* C7.  The value a failed library operation gives its caller tells the   *)
(* kind of the failure: two invocations that failed in different ways,    *)
(* among ValidationError, NoCredential, NetworkError and                  *)
(* ApplicationError, never hand their callers the same value.             *)
(* Every failure is a plain Error carrying a message, and the message of  *)
(* an ApplicationError is the server's: the statement fails.              *)
C7_FailureKindsDistinguishable ==
    (/\ pc = "done"
     /\ inv.impl = "lib"
     /\ kind \in FailureKinds
     /\ other.kind \in FailureKinds
     /\ outcome = other.outcome) => kind = other.kind

IsContribute(i) ==
    \/ i.impl = "lib" /\ i.verb = "contribute_qf"
    \/ i.impl = "cli" /\ i.verb = "qf_contribute"

PositiveAmount(x) == x.t \in {"number", "numeral"} /\ x.v > 0

(* C8.  A contribution whose amount is not a number, or is zero or        *)
(* negative, fails validation locally and issues no HTTP request, in the  *)
(* library and in the shell client alike.                                 *)
(* The shell client checks only that the amount is not empty.             *)
C8_AmountValidatedLocally ==
    (IsContribute(inv) /\ ~PositiveAmount(inv.args.amount) /\ kind # "Crash") =>
        /\ requests = <<>>
        /\ (pc = "done" => kind = "ValidationError")

IsPost(i) ==
    \/ i.impl = "lib" /\ i.verb = "post_update"
    \/ i.impl = "cli" /\ i.verb \in {"post", "post_link"}

\* The value the caller gave for a field of the post, as JSON.
PostValue(i, k) == IF i.impl = "lib" THEN i.args[k] ELSE Str(i.args[k])

PostNamed(i) == \A k \in {"submolt", "title"} : ~IsMissing(PostValue(i, k))

\* Which of content and url the caller supplied.
PostSupplied(i) ==
    {k \in {"content", "url"} \cap DOMAIN i.args : ~IsMissing(PostValue(i, k))}

ExpectedPostBody(i) ==
    Body(Obj([k \in {"submolt", "title"} \cup PostSupplied(i) |-> PostValue(i, k)]))

(* C9.  Creating a post with submolt and title given (post_update in the  *)
(* library, post and post_link in the shell client):                      *)
(*  - with neither content nor url supplied, the invocation fails and no  *)
(*    request is sent;                                                    *)
(*  - with at least one supplied, and a credential to send it with, the   *)
(*    request POST /api/v1/posts is issued;                               *)
(*  - the body of that request is exactly submolt, title and those of     *)
(*    content and url that were supplied: an omitted one is not in it.    *)
C9_PostEitherOr ==
    (IsPost(inv) /\ PostNamed(inv)) =>
        /\ PostSupplied(inv) = {} =>
              requests = <<>> /\ (pc = "done" => Failed(outcome))
        /\ (PostSupplied(inv) # {} /\ ~NoCredentialResolvable) => requests # <<>>
        /\ requests # <<>> =>
              /\ PostSupplied(inv) # {}
              /\ requests[1].method = "POST"
              /\ requests[1].path = ApiPrefix \o <<"posts">>
              /\ requests[1].body = ExpectedPostBody(inv)

\* A text post went out from the library with an empty url left out of it.
C9_Witness ==
    /\ inv.impl = "lib"
    /\ inv.verb = "post_update"
    /\ PostNamed(inv)
    /\ PostSupplied(inv) = {"content"}
    /\ inv.args.url = Str("")
    /\ requests # <<>>
    /\ requests[1].body = ExpectedPostBody(inv)
    /\ pc = "done"
    /\ kind = "Success"

\* The verbs the API wants an explicit empty object from.
EmptyObjectVerbs(impl) ==
    IF impl = "lib" THEN {"join_pool", "upvote_post", "downvote_post", "subscribe_submolt"}
    ELSE {"pool_join", "upvote", "downvote", "subscribe", "follow"}

\* The verbs whose caller hands the dispatcher the fields of a body.
DataVerbs(impl) ==
    IF impl = "lib" THEN {"contribute_qf", "post_update", "add_comment"}
    ELSE {"post", "post_link", "comment", "reply", "submolt_create", "profile_update"}

\* The verbs given no body: the GET verbs, and leaving or undoing.
BodilessVerbs(impl) ==
    IF impl = "lib" THEN {"leave_pool"}
    ELSE {"pool_leave", "unsubscribe", "unfollow"}

(* C10.  Every request, in both clients, carries an Authorization bearer  *)
(* header and a JSON Content-Type header.  The request a dispatcher       *)
(* builds has a body exactly when its caller passed one: the body {} for  *)
(* the verbs that need an explicit empty object (join_pool, the votes,    *)
(* subscribe, follow), a body of fields for the verbs that pass fields,   *)
(* and no body for the GET verbs and for leave_pool and its like.         *)
(* (What a redirect hop carries is decided by curl from the status of     *)
(* the redirect, not by the dispatcher: a hop's body is not spoken of.)   *)
C10_BodyAndHeaders ==
    \A n \in 1..Len(requests) :
        LET r == requests[n] IN
        /\ r.auth # NoAuth
        /\ r.auth[1] = "Bearer"
        /\ r.auth[2] # ""
        /\ r.ctype = JsonType
        /\ r.hop = 0 =>
              /\ inv.verb \in EmptyObjectVerbs(inv.impl) => r.body = Body(EmptyObj)
              /\ inv.verb \in DataVerbs(inv.impl) => r.body.has
              /\ (r.method = "GET" \/ inv.verb \in BodilessVerbs(inv.impl)) => r.body = NoBody
              /\ (IsContribute(inv) /\ inv.impl = "cli") =>
                    (r.body.has <=> inv.args.amount.t = "numeral")

\* The library joined a pool: the request went out with the body {}.
C10_Witness ==
    /\ inv.impl = "lib"
    /\ inv.verb = "join_pool"
    /\ pc = "done"
    /\ kind = "Success"
    /\ requests # <<>>
    /\ requests[1].body = Body(EmptyObj)
    /\ requests[1].auth = BearerOf(getApiKey.key)
    /\ requests[1].ctype = JsonType

\* The pool of a contribution, as the text put in the path.
ContributePool(i) == IF i.impl = "lib" THEN ToStr(i.args.pool_id) ELSE i.args.pool_id

ContributePoolGiven(i) ==
    IF i.impl = "lib" THEN ~IsMissing(i.args.pool_id) ELSE i.args.pool_id # ""

\* The requests the client itself built (not the hops of a redirect).
OwnRequests == {n \in 1..Len(requests) : requests[n].hop = 0}

(* C11.  A contribution with a non-empty pool id P and a positive amount  *)
(* A, sent with a credential, issues exactly one request of its own: a    *)
(* POST to /api/v1/qf/pools/P/contribute with the JSON body {"amount":A}. *)
(* When the answer is 2xx with a JSON object, the library returns that    *)
(* object as it is: nothing added, dropped or replaced by a default.      *)
C11_ContributePassthrough ==
    (/\ IsContribute(inv)
     /\ ContributePoolGiven(inv)
     /\ PositiveAmount(inv.args.amount)
     /\ ~NoCredentialResolvable) =>
        /\ Cardinality(OwnRequests) = 1
        /\ requests[1].method = "POST"
        /\ requests[1].host = TrustedHost
        /\ requests[1].path = ApiPrefix \o <<"qf", "pools", ContributePool(inv), "contribute">>
        /\ requests[1].query = <<>>
        /\ requests[1].body = Body(Obj([amount |-> Num(inv.args.amount.v)]))
        /\ (/\ inv.impl = "lib"
            /\ pc = "done"
            /\ response # NoResponse
            /\ Is2xx(response.status)
            /\ response.body.ok
            /\ response.body.json.t = "object") => outcome = Returned(response.body.json)

\* The library contributed 100 to p1 and handed back the server's object.
C11_Witness ==
    /\ inv.impl = "lib"
    /\ inv.verb = "contribute_qf"
    /\ inv.args.amount = Num(100)
    /\ pc = "done"
    /\ Len(requests) = 1
    /\ response.status = 200
    /\ response.body = JsonBody(Obj([id |-> Str("p1")]))
    /\ outcome = Returned(Obj([id |-> Str("p1")]))

\* Percent-decoding, as a server does it to a query parameter.
CharOfCode(a, b) ==
    CASE <<a, b>> = <<"2", "0">> -> " "
      [] <<a, b>> = <<"2", "6">> -> "&"
      [] <<a, b>> = <<"2", "1">> -> "!"
      [] <<a, b>> = <<"0", "A">> -> Newline
      [] OTHER -> "?"

RECURSIVE PercentDecode(_)
PercentDecode(s) ==
    IF s = <<>> THEN <<>>
    ELSE IF Head(s) = "%" /\ Len(s) >= 3
    THEN <<CharOfCode(s[2], s[3])>> \o PercentDecode(SubSeq(s, 4, Len(s)))
    ELSE <<Head(s)>> \o PercentDecode(Tail(s))

CharsOf(s) == {s[n] : n \in 1..Len(s)}

(* C12.  The search query a caller gives is in the request URL fully      *)
(* percent-encoded and nothing is added to it: the q parameter holds no   *)
(* literal space and no bare &, and decoding it gives back exactly the    *)
(* caller's text.                                                         *)
(* The shell client encodes the output of echo, newline included: the     *)
(* parameter ends in %0A and decodes to the query followed by a newline.  *)
C12_QueryPercentEncoded ==
    \A n \in 1..Len(requests) : \A k \in 1..Len(requests[n].query) :
        LET p == requests[n].query[k] IN
        (p.name = "q" /\ inv.args.query.t = "chars") =>
            /\ p.value.t = "chars"
            /\ " " \notin CharsOf(p.value.v)
            /\ "&" \notin CharsOf(p.value.v)
            /\ PercentDecode(p.value.v) = inv.args.query.v

(* C13.  A credentials file that is there but is not JSON counts as a    *)
(* file without an api_key: with the environment variable unset, an       *)
(* invocation that needs a credential ends in the NoCredential failure    *)
(* with its message, none ends in a crash or a silent exit, and the       *)
(* shell client's help still prints the usage listing and exits 0.        *)
(* The shell script reads the file before it looks at the verb, and jq's  *)
(* failure ends it there under set -e.                                    *)
C13_UnparseableFileIsNoKey ==
    (cfgFile = "unparseable" /\ envKey = "" /\ pc = "done") =>
        /\ kind # "Crash"
        /\ (inv.impl = "cli" /\ inv.verb = "help") => outcome = Exited(0, show_help.out)
        /\ (AuthenticatedVerb(inv) /\ kind # "ValidationError") =>
              /\ kind = "NoCredential"
              /\ Failed(outcome)
              /\ (outcome.k = "exit" => outcome.v.out # <<>>)

(* C14.  A redirect to the trusted origin is followed: the invocation    *)
(* does not complete on the 3xx response, and each hop to the trusted     *)
(* host carries the Authorization header of the request before it.        *)
(* The library hands the 3xx response to its caller as a failure:         *)
(* https.request follows nothing.                                         *)
C14_SameOriginRedirectFollowed ==
    /\ (pc = "done" /\ response # NoResponse) =>
          ~(IsRedirect(response) /\ response.location = TrustedHost)
    /\ \A n \in 2..Len(requests) :
          (requests[n].hop > 0 /\ requests[n].host = TrustedHost) =>
              requests[n].auth = requests[n - 1].auth

(* C15.  No failure is silently recovered: a library operation gives     *)
(* its caller a result only when the last request it issued was answered  *)
(* 2xx (an earlier one that failed has already ended it).  This includes  *)
(* the scoped feed request of discover_opportunities.                     *)
(* discover_opportunities keeps an empty list for a scoped feed request   *)
(* the server refused, and returns.                                       *)
C15_NoSilentRecovery ==
    (inv.impl = "lib" /\ pc = "done" /\ outcome.k = "return") =>
        /\ response # NoResponse
        /\ Is2xx(response.status)

\* The invocation is a discover_opportunities with a community filter.
IsScopedDiscover(i) ==
    i.impl = "lib" /\ i.verb = "discover_opportunities" /\ Truthy(i.args.submolt)

IsScopedFeedRequest(r) == Len(r.path) = 5 /\ r.path[3] = "submolts" /\ r.path[5] = "posts"

(* C16.  In discover_opportunities with a community filter the search     *)
(* request and the scoped feed request are independent: whatever the      *)
(* outcome of the search request, the scoped feed request has been issued *)
(* by the time the invocation ends.                                       *)
(* The scoped feed request comes after the search request and only when   *)
(* the search succeeded with data.                                        *)
C16_ScopedFeedIndependent ==
    (IsScopedDiscover(inv) /\ ~NoCredentialResolvable /\ pc = "done") =>
        \E n \in 1..Len(requests) : IsScopedFeedRequest(requests[n])

KnownCliVerbs == CliVerbs \ {"frobnicate"}

(* C17.  The exit status of the shell client is non-zero when the verb    *)
(* is unknown, when a required argument of a known verb is missing, and   *)
(* when a verb that needs a credential finds none; it is 0 whenever the   *)
(* server's JSON response was obtained and printed, an application-level  *)
(* error (a non-2xx status) included.                                     *)
C17_CliExitStatus ==
    (inv.impl = "cli" /\ pc = "done") =>
        /\ inv.verb \notin KnownCliVerbs => outcome.v.status # 0
        /\ MissingRequired(inv) => outcome.v.status # 0
        /\ (NoCredentialResolvable /\ AuthenticatedVerb(inv)) => outcome.v.status # 0
        /\ (response # NoResponse /\ response.body.ok) =>
              /\ outcome.v.status = 0
              /\ outcome.v.out = inv.echo \o <<response.body.json>>

\* An application-level error was relayed: printed, and the exit is 0.
C17_Witness ==
    /\ inv.impl = "cli"
    /\ pc = "done"
    /\ response.status = 404
    /\ response.body = JsonBody(Obj([error |-> Str("not found")]))
    /\ outcome = Exited(0, inv.echo \o <<Obj([error |-> Str("not found")])>>)

(* C18.  When the request of a shell verb fails in transport (no         *)
(* response is obtained), the shell client prints an error message and    *)
(* exits with a non-zero status.                                          *)
(* curl -s says nothing, jq reads an empty input, and the status of the   *)
(* pipeline is jq's 0.                                                    *)
C18_CliTransportFailureReported ==
    (inv.impl = "cli" /\ pc = "done" /\ kind = "NetworkError") =>
        /\ outcome.v.status # 0
        /\ outcome.v.out # inv.echo

\* A feed answer in one of its two shapes: a bare list of posts, or an
\* object holding that list in its posts field.
IsFeedAnswer(j) ==
    \/ j.t = "array"
    \/ j.t = "object" /\ "posts" \in DOMAIN j.v /\ j.v.posts.t = "array"

FeedList(j) == IF j.t = "array" THEN j ELSE j.v.posts

\* The invocation has completed on a 2xx answer to a feed request.
FeedAnswered ==
    /\ inv.impl = "lib"
    /\ pc = "done"
    /\ response # NoResponse
    /\ Is2xx(response.status)
    /\ response.body.ok
    /\ IsFeedAnswer(response.body.json)

(* C19.  A library operation that reads a list of posts from a feed       *)
(* endpoint gives its caller the posts of the answer, whichever shape the *)
(* 2xx answer has: get_feed returns that list, and discover_opportunities *)
(* returns the posts of its search followed by that list.                 *)
(* discover_opportunities reads the posts field only: the posts of a bare *)
(* list are lost.                                                         *)
C19_FeedShapesNormalized ==
    /\ (FeedAnswered /\ inv.verb = "get_feed") =>
          outcome = Returned(FeedList(response.body.json))
    /\ (FeedAnswered /\ inv.verb = "discover_opportunities" /\ inv.step = 2) =>
          /\ outcome.k = "return"
          /\ outcome.v.v.posts = Concat(Or(Prop(inv.saved, "posts"), Arr(<<>>)),
                                        FeedList(response.body.json))

IsFeed(i) ==
    \/ i.impl = "lib" /\ i.verb = "get_feed"
    \/ i.impl = "cli" /\ i.verb = "feed"

\* The community name and the sort key the caller gave, as JSON values
\* (the shell's empty argument is an omitted one).
FeedArg(i, k) ==
    IF i.impl = "lib" THEN i.args[k]
    ELSE IF i.args[k] = "" THEN Undefined ELSE Str(i.args[k])

(* C20.  A feed request (get_feed in the library, feed in the shell       *)
(* client), sent with a credential, is a GET whose path is                *)
(* /api/v1/submolts/N/posts for a non-empty community name N and          *)
(* /api/v1/posts when the name is omitted or empty.  A sort key the       *)
(* caller gave is the sort query parameter as given: a key outside hot,   *)
(* new, top and rising is not refused locally.                            *)
C20_FeedScoping ==
    (IsFeed(inv) /\ ~NoCredentialResolvable) =>
        /\ requests # <<>>
        /\ requests[1].method = "GET"
        /\ requests[1].host = TrustedHost
        /\ requests[1].path =
              IF IsMissing(FeedArg(inv, "submolt")) THEN ApiPrefix \o <<"posts">>
              ELSE ApiPrefix \o <<"submolts", FeedArg(inv, "submolt").v, "posts">>
        /\ requests[1].query[1].name = "sort"
        /\ FeedArg(inv, "sort") # Undefined =>
              requests[1].query[1].value = FeedArg(inv, "sort")
        /\ kind # "ValidationError"

\* The library asked for a community's feed with a sort key of its own.
C20_Witness ==
    /\ inv.impl = "lib"
    /\ inv.verb = "get_feed"
    /\ inv.args.sort = Str("bogus")
    /\ inv.args.submolt = Str("p1")
    /\ requests # <<>>
    /\ requests[1].path = ApiPrefix \o <<"submolts", "p1", "posts">>
    /\ requests[1].query[1] = Param("sort", Str("bogus"))
    /\ pc = "done"
    /\ kind = "Success"

(* C21.  Every dispatch of a request by the library eventually          *)
(* completes, with a response envelope or with a network error, whatever  *)
(* the transport does: a request in flight does not stay in flight, and   *)
(* once its response has started the dispatch goes on to its outcome (the *)
(* invocation ends, or issues its next request).  The promise is not left *)
(* pending.                                                               *)
(* Nothing listens for the end of a response that does not end: after a   *)
(* connection dropped in mid-response the promise stays pending for good. *)
C21_DispatchSettles ==
    /\ (pc = "await") ~> (pc # "await")
    /\ (pc = "receiving") ~> (pc \in {"await", "done"})

====
